---- MODULE Spec2Model ----
(***************************************************************************)
(* Model of examples/display_info.rs: the calibrated, display-aware        *)
(* capture pipeline (ScalingConfig and DisplayAwareCapture).               *)
(*                                                                         *)
(* The program computes with f32.  An f32 value is modelled exactly as a   *)
(* record [neg, m, e] standing for (-1)^neg * m * 2^e, where m = 0 (zero)  *)
(* or 2^23 <= m < 2^24 (a normal number with its 24-bit significand).      *)
(* Every arithmetic operator rounds to nearest, ties to even, as IEEE 754  *)
(* binary32 does.  Subnormals, infinities and NaN are outside the values   *)
(* the model's inputs produce and are not represented.                     *)
(***************************************************************************)
EXTENDS Integers, Sequences, FiniteSets, TLC

\* ------------------------------------------------------------------ f32

TwoTo12 == 2^12
TwoTo23 == 2^23
TwoTo24 == 2^24

F32Zero == [neg |-> FALSE, m |-> 0, e |-> 0]

RECURSIVE BitLen(_)
\* Number of bits of n > 0.
BitLen(n) == IF n = 0 THEN 0 ELSE 1 + BitLen(n \div 2)

\* Round-to-nearest, ties-to-even of q + r/d (0 <= r < d).
RoundNearestEven(q, r, d) ==
    IF 2 * r > d \/ (2 * r = d /\ q % 2 = 1) THEN q + 1 ELSE q

\* A rounded significand may have reached 2^24: renormalise.
Pack(neg, m, e) ==
    IF m = TwoTo24 THEN [neg |-> neg, m |-> TwoTo23, e |-> e + 1]
    ELSE [neg |-> neg, m |-> m, e |-> e]

\* The f32 nearest to an integer n > 0 of len bits.
NormalizeNat(n, len) ==
    IF len <= 24
    THEN [neg |-> FALSE, m |-> n * 2^(24 - len), e |-> len - 24]
    ELSE Pack(FALSE, RoundNearestEven(n \div 2^(len - 24), n % 2^(len - 24), 2^(len - 24)),
              len - 24)

\* `n as f32` for an integer n >= 0 (exact below 2^24, rounded above).
NatToF32(n) == IF n = 0 THEN F32Zero ELSE NormalizeNat(n, BitLen(n))

\* `u as f32` for a u32.
U32ToF32(u) == NatToF32(u)

\* `i as f32` for an i32.
I32ToF32(i) ==
    IF i >= 0 THEN NatToF32(i)
    ELSE [NatToF32(-i) EXCEPT !.neg = TRUE]

\* a * b in f32.  The 48-bit product of the significands is formed in
\* 12-bit limbs as H * 2^24 + L and rounded to 24 bits.
\* The product H * 2^24 + L (2^22 <= H < 2^24, L < 2^24) times 2^e, rounded
\* to 24 bits.
RoundProduct(neg, H, L, e) ==
    IF H >= TwoTo23
    THEN Pack(neg, RoundNearestEven(H, L, TwoTo24), e + 24)
    ELSE Pack(neg, RoundNearestEven(2 * H + (L \div TwoTo23), L % TwoTo23, TwoTo23), e + 23)

\* The product of the significands (a1 * 2^12 + a0) and (b1 * 2^12 + b0), with
\* mid = a1 * b0 + a0 * b1 and t = a0 * b0 + (mid mod 2^12) * 2^12.
MulLimbs(neg, a1b1, mid, t, e) ==
    RoundProduct(neg, a1b1 + (mid \div TwoTo12) + (t \div TwoTo24), t % TwoTo24, e)

F32Mul(a, b) ==
    IF a.m = 0 \/ b.m = 0 THEN F32Zero
    ELSE LET a1  == a.m \div TwoTo12
             a0  == a.m % TwoTo12
             b1  == b.m \div TwoTo12
             b0  == b.m % TwoTo12
             mid == a1 * b0 + a0 * b1
         IN MulLimbs(a.neg /= b.neg, a1 * b1, mid,
                     a0 * b0 + (mid % TwoTo12) * TwoTo12, a.e + b.e)

RECURSIVE LongDiv(_, _, _, _)
\* k further quotient bits of (q + r/d): <<floor((q*d + r) * 2^k / d), remainder>>.
LongDiv(q, r, d, k) ==
    IF k = 0 THEN <<q, r>>
    ELSE IF 2 * r >= d THEN LongDiv(2 * q + 1, 2 * r - d, d, k - 1)
         ELSE LongDiv(2 * q, 2 * r, d, k - 1)

\* a / b in f32, for b /= 0.
F32Div(a, b) ==
    IF a.m = 0 THEN F32Zero
    ELSE LET neg == (a.neg /= b.neg)
             k   == IF a.m >= b.m THEN 23 ELSE 24
             qr  == LongDiv(a.m \div b.m, a.m % b.m, b.m, k)
         IN Pack(neg, RoundNearestEven(qr[1], qr[2], b.m), a.e - b.e - k)

\* a <= b for a, b >= 0.
F32Leq(a, b) ==
    IF a.m = 0 THEN TRUE
    ELSE IF b.m = 0 THEN FALSE
    ELSE a.e < b.e \/ (a.e = b.e /\ a.m <= b.m)

\* The integer part of |f|, for |f| < 2^31 (the requests of the model stay
\* below; at the ends of the integer type Rust's `as` saturates).
TruncMagnitude(f) ==
    IF f.m = 0 \/ f.e <= -24 THEN 0
    ELSE IF f.e >= 0 THEN f.m * 2^(f.e)
    ELSE f.m \div 2^(-f.e)

\* `f as u32`: truncation toward zero; negative values saturate to 0.
F32ToU32(f) == IF f.neg THEN 0 ELSE TruncMagnitude(f)

\* `f as i32`: truncation toward zero.
F32ToI32(f) == IF f.neg THEN -TruncMagnitude(f) ELSE TruncMagnitude(f)

\* f is a whole number.
F32IsWhole(f) == f.m = 0 \/ f.e >= 0 \/ (f.e > -24 /\ f.m % 2^(-f.e) = 0)
\* floor(f): the greatest integer <= f.
Floor(f) ==
    IF f.neg THEN (IF F32IsWhole(f) THEN -TruncMagnitude(f) ELSE -TruncMagnitude(f) - 1)
    ELSE TruncMagnitude(f)
\* f with its fraction dropped (rounding toward zero).
TruncTowardZero(f) == IF f.neg THEN -TruncMagnitude(f) ELSE TruncMagnitude(f)

\* The f32 nearest to n / d: the value of a decimal literal such as 1.56
\* (156 / 100) or 1.255 (1255 / 1000).
F32Lit(n, d) == F32Div(NatToF32(n), NatToF32(d))

\* ------------------------------------------------------- program values

\* let test_size = 100;
test_size == 100

\* The literal 1.56 returned when the test capture fails (and always, in
\* the test build).
Fallback == F32Lit(156, 100)

\* The literal 100.0 of the percentages in the file name.
Hundred == NatToF32(100)

\* ---------------------------------------------------------------- bounds

\* Screen::all() returns at most this many screens.
MaxDisplays == 2
\* Magnitude of the logical coordinates of a request.
MaxCoord == 1

\* display_info.scale_factor as the platform reports it: 1.0, 1.25, 1.255.
ScaleFactors == {F32Lit(1000, 1000), F32Lit(1250, 1000), F32Lit(1255, 1000)}
\* display_info.rotation, in degrees: an unrotated and a rotated display.
Rotations == {0, 90}
\* Width of the image a successful test capture returns.
ProbeWidths == {0, 100}
\* Outcome of one screen.capture_area call of the calibrator.
ProbeOutcomes ==
    {[ok |-> FALSE, width |-> 0]} \cup {[ok |-> TRUE, width |-> w] : w \in ProbeWidths}
\* Outcome of one screen.capture_area call of capture_scaled_area.
PrimErrors == {"PermissionDenied", "DisplayDisconnected"}
Images == {"img"}
PrimOutcomes ==
    {[ok |-> TRUE, image |-> b, err |-> "none"] : b \in Images}
    \cup {[ok |-> FALSE, image |-> "none", err |-> x] : x \in PrimErrors}
\* Outcome of image.save.
SaveOutcomes == {[ok |-> TRUE, err |-> "none"], [ok |-> FALSE, err |-> "IoError"]}
\* (logical_x, logical_y) of a request: the origin, a point left of and above
\* it, a point right of and above it.
Origins == {<<0, 0>>, <<-MaxCoord, -MaxCoord>>, <<MaxCoord, -2 * MaxCoord>>}
\* (logical_width, logical_height) of a request.
DimPairs == {<<100, 100>>, <<100, 50>>, <<0, 5>>, <<1, 1>>, <<TwoTo24 + 1, 1>>}
Prefixes == {"test", "shot"}
LogicalSizes == {100, 50}
TargetDirs == {"target"}
Builds == {"release", "test"}

\* ----------------------------------------------------------------- state

VARIABLES
    build,     \* "test" under cfg(test), "release" otherwise
    pc,        \* "start"; "failed" (all_displays returned Err); "ready" (it returned
               \* Ok); "returned" (a method call on a display has returned)
    displays,  \* the Vec<DisplayAwareCapture> all_displays returned
    calib,     \* per display: the capture calls and the result of its calibration
    call       \* the last capture_scaled_area / save_screenshot call and its result

vars == <<build, pc, displays, calib, call>>

NoCall == [op |-> "none"]

\* ------------------------------------------------------------ operations

\* determine_actual_scaling with no fallback constant: a failed test capture
\* leaves the scale uncorrected (factor 1.0).
determine_actual_scaling_no_fallback(b, screen, out) ==
    IF b = "test"
    THEN [calls |-> <<>>, ret |-> Fallback]
    ELSE [calls |-> <<[x |-> 0, y |-> 0, width |-> test_size, height |-> test_size,
                       out |-> out]>>,
          ret   |-> IF out.ok
                    THEN F32Div(U32ToF32(out.width),
                                F32Mul(U32ToF32(test_size), screen.scale_factor))
                    ELSE NatToF32(1)]

\* determine_actual_scaling dividing by test_size alone, the scale factor
\* forgotten.
determine_actual_scaling_unscaled(b, screen, out) ==
    IF b = "test"
    THEN [calls |-> <<>>, ret |-> Fallback]
    ELSE [calls |-> <<[x |-> 0, y |-> 0, width |-> test_size, height |-> test_size,
                       out |-> out]>>,
          ret   |-> IF out.ok
                    THEN F32Div(U32ToF32(out.width), U32ToF32(test_size))
                    ELSE Fallback]

\* ScalingConfig::determine_actual_scaling, both cfg variants: the capture
\* calls it makes and the factor it returns.  out is the outcome of the test
\* capture.
determine_actual_scaling(b, screen, out) ==
    IF b = "test"
    THEN [calls |-> <<>>, ret |-> Fallback]
    ELSE [calls |-> <<[x |-> 0, y |-> 0, width |-> test_size, height |-> test_size,
                       out |-> out]>>,
          ret   |-> IF out.ok
                    THEN LET actual_size     == U32ToF32(out.width)
                             dpi_scaled_size == F32Mul(U32ToF32(test_size), screen.scale_factor)
                         IN F32Div(actual_size, dpi_scaled_size)
                    ELSE Fallback]

\* ScalingConfig::new, given the calibration's result.
ScalingConfig_new(screen, extra_scale) ==
    [dpi_scale   |-> screen.scale_factor,
     total_scale |-> F32Mul(screen.scale_factor, extra_scale)]

scale_dimension(self, logical_size) ==
    F32ToU32(F32Mul(U32ToF32(logical_size), self.total_scale))

\* scale_coordinate rounding down instead of toward zero.
scale_coordinate_floor(self, logical_coord) ==
    Floor(F32Mul(I32ToF32(logical_coord), self.total_scale))

scale_coordinate(self, logical_coord) ==
    F32ToI32(F32Mul(I32ToF32(logical_coord), self.total_scale))

\* DisplayAwareCapture::new, given the calibration's result.
DisplayAwareCapture_new(screen, extra_scale) ==
    [screen |-> screen, scaling |-> ScalingConfig_new(screen, extra_scale)]

\* capture_scaled_area trying the primitive a second time when it fails.
capture_scaled_area_retry(self, logical_x, logical_y, logical_width, logical_height, prim) ==
    LET rect == [x |-> scale_coordinate(self.scaling, logical_x),
                 y |-> scale_coordinate(self.scaling, logical_y),
                 width |-> scale_dimension(self.scaling, logical_width),
                 height |-> scale_dimension(self.scaling, logical_height),
                 out |-> prim]
    IN [prim_calls |-> IF prim.ok THEN <<rect>> ELSE <<rect, rect>>,
        ret        |-> IF prim.ok
                       THEN [ok |-> TRUE, image |-> prim.image, err |-> "none"]
                       ELSE [ok |-> FALSE, image |-> "none", err |-> prim.err]]

\* DisplayAwareCapture::capture_scaled_area: the calls made to
\* screen.capture_area and the Result returned.  prim is the outcome of the
\* capture primitive.
capture_scaled_area(self, logical_x, logical_y, logical_width, logical_height, prim) ==
    LET physical_x      == scale_coordinate(self.scaling, logical_x)
        physical_y      == scale_coordinate(self.scaling, logical_y)
        physical_width  == scale_dimension(self.scaling, logical_width)
        physical_height == scale_dimension(self.scaling, logical_height)
    IN [prim_calls |-> <<[x |-> physical_x, y |-> physical_y,
                          width |-> physical_width, height |-> physical_height,
                          out |-> prim]>>,
        ret        |-> IF prim.ok
                       THEN [ok |-> TRUE, image |-> prim.image, err |-> "none"]
                       ELSE [ok |-> FALSE, image |-> "none", err |-> prim.err]]

DigitChar == <<"0", "1", "2", "3", "4", "5", "6", "7", "8", "9">>

RECURSIVE Digits(_)
\* Display of an unsigned integer: its decimal digits.
Digits(n) ==
    IF n < 10 THEN DigitChar[n + 1]
    ELSE Digits(n \div 10) \o DigitChar[(n % 10) + 1]

\* The file name without the rotation.
FormatFilename_no_rotation(target_dir, prefix, logical_size, scale_factor, total_scale, rotation) ==
    target_dir \o "/" \o prefix \o "_" \o Digits(logical_size) \o "x" \o Digits(logical_size)
        \o "_dpi" \o Digits(F32ToU32(F32Mul(scale_factor, Hundred)))
        \o "_scale" \o Digits(F32ToU32(F32Mul(total_scale, Hundred))) \o ".png"

\* The format! of save_screenshot.  rotation is a whole number of degrees,
\* which Display prints without a fraction.
FormatFilename(target_dir, prefix, logical_size, scale_factor, total_scale, rotation) ==
    target_dir \o "/" \o prefix \o "_" \o Digits(logical_size) \o "x" \o Digits(logical_size)
        \o "_dpi" \o Digits(F32ToU32(F32Mul(scale_factor, Hundred)))
        \o "_scale" \o Digits(F32ToU32(F32Mul(total_scale, Hundred)))
        \o "_rot" \o Digits(rotation) \o ".png"

\* DisplayAwareCapture::save_screenshot: the image.save calls made and the
\* Result returned.  saved is the outcome of image.save.
save_screenshot(self, image, prefix, logical_size, target_dir, saved) ==
    LET info     == self.screen
        filename == FormatFilename(target_dir, prefix, logical_size, info.scale_factor,
                                   self.scaling.total_scale, info.rotation)
    IN [writes |-> <<[path |-> filename, image |-> image]>>,
        ret    |-> IF saved.ok
                   THEN [ok |-> TRUE, filename |-> filename, err |-> "none"]
                   ELSE [ok |-> FALSE, filename |-> "", err |-> saved.err]]

\* --------------------------------------------------------------- actions

Init ==
    /\ build \in Builds
    /\ pc = "start"
    /\ displays = <<>>
    /\ calib = <<>>
    /\ call = NoCall

\* The screens Screen::all() can return: ids in order, any reported scale
\* factor and rotation.
ScreenLists ==
    UNION {[1..n -> [scale_factor : ScaleFactors, rotation : Rotations]] : n \in 0..MaxDisplays}

\* DisplayAwareCapture::all_displays, Screen::all() failing.
AllDisplaysErr ==
    /\ pc = "start"
    /\ pc' = "failed"
    /\ UNCHANGED <<build, displays, calib, call>>

\* DisplayAwareCapture::all_displays, Screen::all() succeeding: one
\* DisplayAwareCapture::new per screen, each with its calibration.
AllDisplaysOk ==
    /\ pc = "start"
    /\ \E infos \in ScreenLists :
       \E outs \in [DOMAIN infos -> IF build = "test" THEN {[ok |-> FALSE, width |-> 0]}
                                    ELSE ProbeOutcomes] :
          LET screen(i) == [id |-> i, scale_factor |-> infos[i].scale_factor,
                            rotation |-> infos[i].rotation]
              cal(i)    == determine_actual_scaling(build, screen(i), outs[i])
          IN /\ calib' = [i \in DOMAIN infos |-> cal(i)]
             /\ displays' = [i \in DOMAIN infos |-> DisplayAwareCapture_new(screen(i), cal(i).ret)]
    /\ pc' = "ready"
    /\ UNCHANGED <<build, call>>

\* One call of capture_scaled_area on display i.
CaptureScaledArea ==
    /\ pc = "ready"
    /\ \E i \in DOMAIN displays, o \in Origins, d \in DimPairs, prim \in PrimOutcomes :
          call' = [op |-> "capture", display |-> i,
                   args |-> [x |-> o[1], y |-> o[2], width |-> d[1], height |-> d[2]],
                   res |-> capture_scaled_area(displays[i], o[1], o[2], d[1], d[2], prim)]
    /\ pc' = "returned"
    /\ UNCHANGED <<build, displays, calib>>

\* One call of save_screenshot on display i.
SaveScreenshot ==
    /\ pc = "ready"
    /\ \E i \in DOMAIN displays, image \in Images, prefix \in Prefixes, size \in LogicalSizes,
          dir \in TargetDirs, saved \in SaveOutcomes :
          call' = [op |-> "save", display |-> i,
                   args |-> [image |-> image, prefix |-> prefix, logical_size |-> size,
                             target_dir |-> dir],
                   res |-> save_screenshot(displays[i], image, prefix, size, dir, saved)]
    /\ pc' = "returned"
    /\ UNCHANGED <<build, displays, calib>>

\* The caller is done with the Result of the last call; the displays are
\* borrowed immutably by both methods and can be used again.
DropResult ==
    /\ pc = "returned"
    /\ pc' = "ready"
    /\ call' = NoCall
    /\ UNCHANGED <<build, displays, calib>>

Next == AllDisplaysErr \/ AllDisplaysOk \/ CaptureScaledArea \/ SaveScreenshot \/ DropResult

Spec == Init /\ [][Next]_vars

\* ------------------------------------------------------------- properties

\* The f32 nearest to 1.56, 1.0 and 4.0.
F32_1_56 == [neg |-> FALSE, m |-> 13086228, e |-> -23]
F32_1_0  == [neg |-> FALSE, m |-> TwoTo23, e |-> -23]
F32_4_0  == [neg |-> FALSE, m |-> TwoTo23, e |-> -21]

F32Positive(f) == f.m > 0 /\ ~f.neg
F32Less(a, b) == ~F32Leq(b, a)

ProbeFailed(i) == \E k \in DOMAIN calib[i].calls : ~calib[i].calls[k].out.ok

Capturing == call.op = "capture"
Saving == call.op = "save"
\* The display of the last call, and the rectangle it handed to the primitive.
Self == displays[call.display]
Rect == call.res.prim_calls[1]

\* C1: whenever the calibrator's probe capture fails, the calibrator returns
\* exactly 1.56 and raises nothing: the display is constructed with
\* total_scale = scale_factor * 1.56 and all_displays returns Ok.
C1_FallbackOnProbeFailure ==
    \A i \in DOMAIN calib :
        ProbeFailed(i) =>
            /\ calib[i].ret = F32_1_56
            /\ pc /= "failed"
            /\ i \in DOMAIN displays
            /\ displays[i].scaling.total_scale = F32Mul(displays[i].screen.scale_factor, F32_1_56)

\* C1 witness: a display was constructed after its probe capture failed.
C1_Witness ==
    /\ pc = "ready"
    /\ \E i \in DOMAIN calib : ProbeFailed(i) /\ displays[i].screen.scale_factor /= F32_1_0

\* C2: for every probe outcome (failure, or success with any width including 0)
\* the correction factor is > 0 and so is the total_scale of every display.
C2_TotalScalePositive ==
    \A i \in DOMAIN displays :
        F32Positive(calib[i].ret) /\ F32Positive(displays[i].scaling.total_scale)

\* C3: a request whose scaled width or scaled height is not positive is
\* rejected with an InvalidTransform error and the capture primitive is not
\* called.  (Stated for displays whose total scale is positive, so that the
\* empty rectangle comes from the request.)
C3_RejectsEmptyRectangle ==
    (Capturing /\ F32Positive(Self.scaling.total_scale)
               /\ (\/ scale_dimension(Self.scaling, call.args.width) = 0
                   \/ scale_dimension(Self.scaling, call.args.height) = 0))
        => /\ call.res.prim_calls = <<>>
           /\ ~call.res.ret.ok
           /\ call.res.ret.err = "InvalidTransform"

\* C4: on a display rotated by 90 or 270 degrees the rectangle handed to the
\* primitive has the scaled width and height swapped; on a display rotated by
\* 0 or 180 degrees they are passed unswapped.  (Stated for requests of
\* positive width and height.)
C4_RotationSwapsExtents ==
    (Capturing /\ call.res.prim_calls /= <<>> /\ call.args.width > 0 /\ call.args.height > 0) =>
        LET w == TruncMagnitude(F32Mul(U32ToF32(call.args.width), Self.scaling.total_scale))
            h == TruncMagnitude(F32Mul(U32ToF32(call.args.height), Self.scaling.total_scale))
        IN IF Self.screen.rotation \in {90, 270}
           THEN Rect.width = h /\ Rect.height = w
           ELSE Rect.width = w /\ Rect.height = h

\* C5 as stated: the rectangle handed to the primitive is the floor of each
\* scaled coordinate and dimension, negative x and y included.  (Stated for
\* requests of positive width and height.)
C5_FloorConversion ==
    (Capturing /\ call.res.prim_calls /= <<>> /\ call.args.width > 0 /\ call.args.height > 0) =>
        LET ts == Self.scaling.total_scale IN
        /\ Rect.x = Floor(F32Mul(I32ToF32(call.args.x), ts))
        /\ Rect.y = Floor(F32Mul(I32ToF32(call.args.y), ts))
        /\ Rect.width = Floor(F32Mul(U32ToF32(call.args.width), ts))
        /\ Rect.height = Floor(F32Mul(U32ToF32(call.args.height), ts))

\* C5 amended: the rectangle handed to the primitive is each scaled
\* coordinate and dimension (the f32 product with total_scale) truncated
\* toward zero, x and y to x and y, width and height to width and height.
C5_TruncatingConversion ==
    (Capturing /\ call.res.prim_calls /= <<>>) =>
        LET ts == Self.scaling.total_scale IN
        /\ Len(call.res.prim_calls) = 1
        /\ Rect.x = TruncTowardZero(F32Mul(I32ToF32(call.args.x), ts))
        /\ Rect.y = TruncTowardZero(F32Mul(I32ToF32(call.args.y), ts))
        /\ Rect.width = TruncTowardZero(F32Mul(U32ToF32(call.args.width), ts))
        /\ Rect.height = TruncTowardZero(F32Mul(U32ToF32(call.args.height), ts))

\* C5 witness: a request with negative x and y on a display whose total
\* scale is 1.56 reached the primitive at (-1, -1), where the floor is -2.
C5_Witness ==
    /\ Capturing
    /\ call.args.x = -1 /\ call.args.y = -1 /\ call.args.width = 100
    /\ Self.scaling.total_scale = F32_1_56
    /\ Rect.x = -1 /\ Rect.y = -1 /\ Rect.width = 156

\* C6 as stated, of the calibrator of the non-test build: one calibration
\* issues exactly one probe capture, of test_size * scale_factor pixels per
\* side, and on success returns actual_width / (test_size * scale_factor).
C6_ProbeRequestsScaledSize ==
    \A i \in DOMAIN calib :
        build = "release" =>
        LET side == F32ToU32(F32Mul(U32ToF32(test_size), displays[i].screen.scale_factor)) IN
        /\ Len(calib[i].calls) = 1
        /\ calib[i].calls[1].width = side /\ calib[i].calls[1].height = side
        /\ calib[i].calls[1].out.ok =>
               calib[i].ret = F32Div(U32ToF32(calib[i].calls[1].out.width),
                                     F32Mul(U32ToF32(test_size), displays[i].screen.scale_factor))

\* C6 amended: in the non-test build one calibration issues exactly one
\* probe capture, of the rectangle (0, 0, 100, 100) whatever the scale factor,
\* and on success returns actual_width / (100 * scale_factor) in f32; the
\* test build issues no probe capture and returns 1.56.  (Read when
\* all_displays has returned and no method call is in progress: no later step
\* changes calib or displays.)
C6_ProbeRequestsReferenceSize ==
    pc = "ready" =>
    \A i \in DOMAIN calib :
        IF build = "test"
        THEN calib[i].calls = <<>> /\ calib[i].ret = F32_1_56
        ELSE /\ Len(calib[i].calls) = 1
             /\ calib[i].calls[1].x = 0 /\ calib[i].calls[1].y = 0
             /\ calib[i].calls[1].width = 100 /\ calib[i].calls[1].height = 100
             /\ calib[i].calls[1].out.ok =>
                    calib[i].ret = F32Div(U32ToF32(calib[i].calls[1].out.width),
                                          F32Mul(U32ToF32(100), displays[i].screen.scale_factor))

\* C6 witness: a display of scale factor 1.25 whose probe returned an image
\* 100 pixels wide was calibrated to 100 / 125 = 0.8.
C6_Witness ==
    \E i \in DOMAIN calib :
        /\ displays[i].screen.scale_factor = F32Lit(125, 100)
        /\ calib[i].calls /= <<>>
        /\ calib[i].calls[1].out = [ok |-> TRUE, width |-> 100]
        /\ calib[i].ret = F32Lit(8, 10)

\* C7: one call of capture_scaled_area calls the capture primitive at most
\* once; the primitive's error is the call's error, with no image and no
\* second call; the primitive's image is the call's image.
C7_SinglePrimitiveCall ==
    Capturing =>
        /\ Len(call.res.prim_calls) <= 1
        /\ \A k \in DOMAIN call.res.prim_calls :
               LET out == call.res.prim_calls[k].out IN
               IF out.ok
               THEN call.res.ret = [ok |-> TRUE, image |-> out.image, err |-> "none"]
               ELSE call.res.ret = [ok |-> FALSE, image |-> "none", err |-> out.err]

\* C7 witness: a capture whose primitive call failed returned that failure.
C7_Witness ==
    /\ Capturing
    /\ Len(call.res.prim_calls) = 1
    /\ Rect.out.err = "DisplayDisconnected"
    /\ call.res.ret.err = "DisplayDisconnected"

\* The inputs of the file name and the name save_screenshot gives them.
NameInputs(d, prefix, size) ==
    <<prefix, size, d.screen.scale_factor, d.scaling.total_scale, d.screen.rotation>>
NameOf(d, prefix, size) ==
    save_screenshot(d, call.args.image, prefix, size, call.args.target_dir,
                    [ok |-> TRUE, err |-> "none"]).ret.filename
Differing(a, b) == {k \in 1..5 : a[k] /= b[k]}
\* scale * 100 as an integer, as the name shows it.
Percent(scale) == TruncMagnitude(F32Mul(scale, NatToF32(100)))
\* The form of the name.
NameForm(dir, in) ==
    dir \o "/" \o in[1] \o "_" \o ToString(in[2]) \o "x" \o ToString(in[2])
        \o "_dpi" \o ToString(Percent(in[3])) \o "_scale" \o ToString(Percent(in[4]))
        \o "_rot" \o ToString(in[5]) \o ".png"

\* C8 as stated: the name is a function of (prefix, logical_size,
\* scale_factor, total_scale, rotation) of the stated form, and two input
\* tuples that differ in exactly one input have different names.  (Stated for
\* displays whose total scale is positive.)
C8_NameInjectiveInEachInput ==
    (Saving /\ call.res.ret.ok /\ \A j \in DOMAIN displays : F32Positive(displays[j].scaling.total_scale)) =>
        LET mine == NameInputs(Self, call.args.prefix, call.args.logical_size) IN
        /\ call.res.ret.filename = NameForm(call.args.target_dir, mine)
        /\ \A j \in DOMAIN displays, p \in Prefixes, s \in LogicalSizes :
               LET other == NameInputs(displays[j], p, s) IN
               /\ other = mine => NameOf(displays[j], p, s) = call.res.ret.filename
               /\ Cardinality(Differing(mine, other)) = 1 =>
                      NameOf(displays[j], p, s) /= call.res.ret.filename

\* C8 amended: the name is a function of the five inputs, of the stated form
\* (after the target directory); two tuples that differ only in the prefix,
\* only in the logical size or only in the rotation have different names; two
\* that differ only in the scale factor, or only in the total scale, have
\* different names exactly when that scale's integer percentage differs.
C8_NameInjectiveUpToPercent ==
    (Saving /\ call.res.ret.ok) =>
        LET mine == NameInputs(Self, call.args.prefix, call.args.logical_size) IN
        /\ call.res.ret.filename = NameForm(call.args.target_dir, mine)
        /\ \A j \in DOMAIN displays, p \in Prefixes, s \in LogicalSizes :
               LET other == NameInputs(displays[j], p, s)
                   same  == NameOf(displays[j], p, s) = call.res.ret.filename
                   diff  == Differing(mine, other)
               IN /\ diff = {} => same
                  /\ (Cardinality(diff) = 1 /\ diff \subseteq {1, 2, 5}) => ~same
                  /\ diff = {3} => (same <=> Percent(mine[3]) = Percent(other[3]))
                  /\ diff = {4} => (same <=> Percent(mine[4]) = Percent(other[4]))

\* C8 witness: the name saved for prefix test, size 100, scale factor 1.25,
\* total scale 1.25 * 1.56 and rotation 90, beside a second display, with
\* another id, that differs from the first in its rotation alone.
C8_Witness ==
    /\ Saving /\ call.res.ret.ok
    /\ call.res.ret.filename = "target/test_100x100_dpi125_scale195_rot90.png"
    /\ \E j \in DOMAIN displays :
           Differing(NameInputs(Self, "test", 100), NameInputs(displays[j], "test", 100)) = {5}

\* C9: for a positive logical width (or height) and total_scale >= 1 the
\* scaled dimension handed to the primitive is no smaller.
C9_NeverShrinks ==
    (Capturing /\ call.res.prim_calls /= <<>> /\ F32Leq(F32_1_0, Self.scaling.total_scale)
       /\ ~Self.scaling.total_scale.neg) =>
        /\ call.args.width > 0 => Rect.width >= call.args.width
        /\ call.args.height > 0 => Rect.height >= call.args.height

\* C10: in the test build (correction factor 1.56), for a logical size in
\* 1..1000 and a scale factor in [1.0, 4.0), the scaled size is strictly
\* larger than the logical size and scaled / logical >= scale factor.
C10_ScalingProperties ==
    (Capturing /\ build = "test" /\ call.res.prim_calls /= <<>>
       /\ call.args.width \in 1..1000
       /\ F32Leq(F32_1_0, Self.screen.scale_factor)
       /\ F32Less(Self.screen.scale_factor, F32_4_0)) =>
        /\ Rect.width > call.args.width
        /\ F32Leq(Self.screen.scale_factor,
                  F32Div(U32ToF32(Rect.width), U32ToF32(call.args.width)))
====
